---- MODULE Spec2Model ----
(***************************************************************************)
(* Model of bot.py: the token-gated prize roulette.                        *)
(*                                                                         *)
(* State: the three worksheets (Tokens, Prizes, Winners), the process-wide *)
(* asyncio lock db_lock, the configured DATA_SOURCE, and one record of     *)
(* handler-local variables per incoming update (a /start message or a      *)
(* "spin:" callback).                                                      *)
(*                                                                         *)
(* Scheduling: the handlers are coroutines of one event loop.  Every       *)
(* `await` of a DataManager call is a point where another handler may run; *)
(* the code between two such awaits is one action.  Under 'google' the     *)
(* body of a locked section contains no await, so acquire-body-release is  *)
(* one action; under 'yandex' the body is itself awaited while db_lock is  *)
(* held, so acquiring and running the body are two actions.  Messages sent *)
(* to the user touch no shared state and are counted in the action that    *)
(* precedes them.                                                          *)
(***************************************************************************)
EXTENDS Integers, Sequences, FiniteSets, TLC

\* ---------------------------------------------------------------- bounds
MaxRequests == 2
MaxLimit == 1
MaxCount == 1

Requests == 1..MaxRequests

\* ------------------------------------------------------------ cell values
\* A worksheet cell: a number, a non-numeric text, or an empty cell.
IntCell(n) == [k |-> "int", v |-> n]
TextCell == [k |-> "text", v |-> 0]
BlankCell == [k |-> "blank", v |-> 0]

\* Prizes has one header row: data row i is worksheet row i + HeaderRows.
HeaderRows == 1

Free == 0

VARIABLES
    DATA_SOURCE,  \* 'google' | 'yandex', fixed at start
    db_lock,      \* Free, or the request holding the asyncio.Lock
    Tokens,       \* worksheet "Tokens": rows [token, status]
    Prizes,       \* worksheet "Prizes": rows [name, limit, issued]
    Winners,      \* worksheet "Winners": rows [user, prize]
    pc,           \* position of each handler
    token,        \* handler local: the token argument
    status,       \* handler local: status returned by check_token
    row,          \* handler local: row returned by check_token (0 = None)
    won_prize,    \* handler local: the prize dict picked by random.choice
    new_tokens,   \* handler local of cmd_generate: the minted tokens
    minted,       \* number of tokens minted so far (uuid4 never repeats)
    msgs,         \* number of text notifications sent to the requester
    outcome,      \* how the handler ended
    resp          \* how the handler's latest backend call ended

vars == <<DATA_SOURCE, db_lock, Tokens, Prizes, Winners, pc, token, status,
          row, won_prize, new_tokens, minted, msgs, outcome, resp>>

sheets == <<Tokens, Prizes, Winners>>

\* ------------------------------------------------------------ input sets
TokenArgs == {"t1", "t2", "zz"}
NoPrize == [name |-> "", issued |-> 0, row_idx |-> 0]

\* The Tokens sheet after an earlier /generate 2.
InitTokens ==
    {<<[token |-> "t1", status |-> "active"],
       [token |-> "t2", status |-> "active"]>>}

QuotaRows(n) ==
    {[name |-> n, limit |-> IntCell(l), issued |-> IntCell(i)] :
        l \in 0..MaxLimit, i \in 0..MaxLimit}

\* Rows as a person may leave them in the sheet: issued never above limit,
\* or a cell that is text or empty.
PrizeRows(n) ==
    {r \in QuotaRows(n) : r.issued.v <= r.limit.v}
    \cup {[name |-> n, limit |-> TextCell, issued |-> IntCell(0)],
          [name |-> n, limit |-> IntCell(MaxLimit), issued |-> TextCell],
          [name |-> n, limit |-> IntCell(MaxLimit), issued |-> BlankCell],
          [name |-> n, limit |-> BlankCell, issued |-> IntCell(0)]}

\* A second row, when there is one: a prize with quota left, or a row whose
\* limit cell is text.
SecondRows ==
    {[name |-> "B", limit |-> IntCell(1), issued |-> IntCell(0)],
     [name |-> "B", limit |-> TextCell, issued |-> IntCell(0)]}

InitPrizes ==
    {<<a>> : a \in PrizeRows("A")}
    \cup {<<a, b>> : a \in PrizeRows("A"), b \in SecondRows}

\* ------------------------------------------------- DataManager: pure parts
\* int(x) of a cell raises ValueError unless the cell holds a number.
IsInt(c) == c.k = "int"

\* _check_token_google / _check_token_yandex: the first row whose token cell
\* equals the argument; (None, None, None) when there is none.
\* None is "None" for the status and 0 for the row.
TokenHits(sheet, tk) == {i \in 1..Len(sheet) : sheet[i].token = tk}

_check_token(sheet, tk) ==
    IF TokenHits(sheet, tk) = {} THEN <<"None", 0>>
    ELSE LET i == CHOOSE j \in TokenHits(sheet, tk) :
                      \A m \in TokenHits(sheet, tk) : j <= m
         IN <<sheet[i].status, i>>

\* A mark that flips the status cell instead of setting it.
_mark_token_flipped(sheet, r) ==
    IF r \in 1..Len(sheet)
    THEN [sheet EXCEPT ![r].status = IF @ = "used" THEN "active" ELSE "used"]
    ELSE sheet

\* _mark_token_used_google / _mark_token_used_yandex: cell (row, 2) := 'used'.
_mark_token_used(sheet, r) ==
    IF r \in 1..Len(sheet) THEN [sheet EXCEPT ![r].status = "used"] ELSE sheet

PrizeItem(sheet, i, issued) ==
    [name |-> sheet[i].name, issued |-> issued, row_idx |-> i + HeaderRows]

\* _get_prizes_google: a row whose limit or issued raises ValueError is
\* skipped (try/except inside the loop).
RECURSIVE GooglePrizesFrom(_, _)
GooglePrizesFrom(sheet, i) ==
    IF i > Len(sheet) THEN <<>>
    ELSE (IF /\ IsInt(sheet[i].limit)
             /\ IsInt(sheet[i].issued)
             /\ sheet[i].limit.v - sheet[i].issued.v > 0
          THEN <<PrizeItem(sheet, i, sheet[i].issued.v)>>
          ELSE <<>>) \o GooglePrizesFrom(sheet, i + 1)

_get_prizes_google(sheet) == GooglePrizesFrom(sheet, 1)

\* _get_prizes_yandex: a row with an empty limit is passed over before any
\* int(); an empty issued counts as 0; int() of a text cell raises, and the
\* try/except around the whole loop turns that into [].
YandexIssued(c) == IF c.k = "blank" THEN 0 ELSE c.v

YandexRowRaises(r) ==
    r.limit.k # "blank" /\ (r.limit.k = "text" \/ r.issued.k = "text")

RECURSIVE YandexPrizesFrom(_, _)
YandexPrizesFrom(sheet, i) ==
    IF i > Len(sheet) THEN <<>>
    ELSE (IF /\ sheet[i].limit.k # "blank"
             /\ sheet[i].limit.v - YandexIssued(sheet[i].issued) > 0
          THEN <<PrizeItem(sheet, i, YandexIssued(sheet[i].issued))>>
          ELSE <<>>) \o YandexPrizesFrom(sheet, i + 1)

_get_prizes_yandex(sheet) ==
    IF \E i \in 1..Len(sheet) : YandexRowRaises(sheet[i]) THEN <<>>
    ELSE YandexPrizesFrom(sheet, 1)

\* An update that reads the stored issued again and writes it + 1.
GoogleUpdateIssuedReread(sheet, prize) ==
    [sheet EXCEPT ![prize.row_idx - HeaderRows].issued = IntCell(@.v + 1)]

\* _record_winner_google, first call: update_cell(row_idx, 4, int(Выдано) + 1)
\* with the issued value of the listed prize dict.
GoogleUpdateIssued(sheet, prize) ==
    [sheet EXCEPT ![prize.row_idx - HeaderRows].issued = IntCell(prize.issued + 1)]

\* _record_winner_yandex: curr_val is read again from the downloaded file;
\* `int(curr_val) if curr_val else 0`, then curr_val + 1 is written.
YandexUpdateIssued(sheet, prize) ==
    LET i == prize.row_idx - HeaderRows
        curr_val == IF sheet[i].issued.k = "int" THEN sheet[i].issued.v ELSE 0
    IN [sheet EXCEPT ![i].issued = IntCell(curr_val + 1)]

\* The row appended to Winners (the timestamp and the handle are left out).
WinnerRow(user, prize) == [user |-> user, prize |-> prize.name]

\* ------------------------------------------------------------------ Init
Init ==
    /\ DATA_SOURCE \in {"google", "yandex"}
    /\ db_lock = Free
    /\ Tokens \in InitTokens
    /\ Prizes \in InitPrizes
    /\ Winners = <<>>
    /\ pc = [r \in Requests |-> "idle"]
    /\ token = [r \in Requests |-> ""]
    /\ status = [r \in Requests |-> "None"]
    /\ row = [r \in Requests |-> 0]
    /\ won_prize = [r \in Requests |-> NoPrize]
    /\ new_tokens = [r \in Requests |-> <<>>]
    /\ minted = 0
    /\ msgs = [r \in Requests |-> 0]
    /\ outcome = [r \in Requests |-> "none"]
    /\ resp = [r \in Requests |-> "none"]

\* --------------------------------------------------------- lock sections
\* The awaited DataManager calls of the two handlers.
Ops == {"start_check", "spin_check", "spin_list", "spin_record", "spin_mark",
        "exh_mark", "gen_add"}

\* Position inside the `async with db_lock` section of an operation.
InCS(op) == op \o "_cs"

CsPcs == {InCS(op) : op \in Ops}

\* Acquire with check_token entering its section without the lock, the way
\* check_token runs under 'google'.
AcquireNoLockForCheck(r) ==
    /\ DATA_SOURCE = "yandex"
    /\ pc[r] \in Ops
    /\ IF pc[r] \in {"start_check", "spin_check"} THEN UNCHANGED db_lock
       ELSE db_lock = Free /\ db_lock' = r
    /\ pc' = [pc EXCEPT ![r] = InCS(pc[r])]
    /\ UNCHANGED <<DATA_SOURCE, sheets, token, status, row, won_prize,
                   new_tokens, minted, msgs, outcome, resp>>

\* `async with db_lock:` under 'yandex' (get_prizes, record_winner,
\* mark_token_used, and the section inside _check_token_yandex): wait until
\* the lock is free, take it, and await the body.
Acquire(r) ==
    /\ DATA_SOURCE = "yandex"
    /\ pc[r] \in Ops
    /\ db_lock = Free
    /\ db_lock' = r
    /\ pc' = [pc EXCEPT ![r] = InCS(pc[r])]
    /\ UNCHANGED <<DATA_SOURCE, sheets, token, status, row, won_prize,
                   new_tokens, minted, msgs, outcome, resp>>

\* The body of a locked operation is about to run: under 'google' the lock
\* is taken and the body runs without an await in between.
Entered(r, op) ==
    IF DATA_SOURCE = "google" THEN pc[r] = op /\ db_lock = Free
    ELSE pc[r] = InCS(op)

\* check_token takes no lock under 'google'.
EnteredCheck(r, op) ==
    IF DATA_SOURCE = "google" THEN pc[r] = op ELSE pc[r] = InCS(op)

\* A lock acquired and kept: acquire() with no release on the way out.
ReleaseForgotten == UNCHANGED db_lock

\* __aexit__ of `async with db_lock`, on return and on exception alike.
Release == db_lock' = Free

ReleaseCheck == IF DATA_SOURCE = "google" THEN UNCHANGED db_lock ELSE Release

\* The handler returns (or its exception leaves it) after sending n text
\* messages; its local variables are gone.
Finish(r, out, n) ==
    /\ pc' = [pc EXCEPT ![r] = "done"]
    /\ outcome' = [outcome EXCEPT ![r] = out]
    /\ msgs' = [msgs EXCEPT ![r] = @ + n]
    /\ status' = [status EXCEPT ![r] = "None"]
    /\ row' = [row EXCEPT ![r] = 0]
    /\ won_prize' = [won_prize EXCEPT ![r] = NoPrize]
    /\ new_tokens' = [new_tokens EXCEPT ![r] = <<>>]

\* The handler goes on to its next awaited call after sending n messages.
Goto(r, next, n) ==
    /\ pc' = [pc EXCEPT ![r] = next]
    /\ msgs' = [msgs EXCEPT ![r] = @ + n]
    /\ UNCHANGED outcome

\* How a check_token call can end.  'google': the client or the worksheet
\* cannot be opened ("raise", outside the try), or find/cell fails inside the
\* try and is swallowed ("find_error").  'yandex': the download fails.
CheckResults ==
    IF DATA_SOURCE = "google" THEN {"ok", "find_error", "raise"}
    ELSE {"ok", "raise"}

check_token(tk, res) ==
    IF res = "ok" THEN _check_token(Tokens, tk) ELSE <<"None", 0>>

\* Updates are numbered in the order the dispatcher starts their handlers.
Arrives(r) == pc[r] = "idle" /\ \A q \in Requests : q < r => pc[q] # "idle"

\* ------------------------------------------------------------- cmd_start
cmd_start(r) ==
    /\ Arrives(r)
    /\ \E tk \in TokenArgs \cup {""} :
        /\ token' = [token EXCEPT ![r] = tk]
        /\ IF tk = "" THEN Finish(r, "NoLink", 1)
           ELSE /\ Goto(r, "start_check", 0)
                /\ UNCHANGED <<status, row, won_prize, new_tokens>>
    /\ UNCHANGED <<DATA_SOURCE, db_lock, sheets, minted, resp>>

\* StartAnswer without the `elif status == 'used'` branch.
StartAnswerNoUsed(st) == IF st = "active" THEN "Ready" ELSE "Invalid"

\* The reply of cmd_start for a status.
StartAnswer(st) ==
    IF st = "active" THEN "Ready"
    ELSE IF st = "used" THEN "AlreadyUsed" ELSE "Invalid"

\* status, row, col = await DataManager.check_token(token), then one answer.
\* An exception of check_token leaves the handler unanswered.
StartCheck(r) ==
    /\ EnteredCheck(r, "start_check")
    /\ ReleaseCheck
    /\ \E res \in CheckResults :
        /\ resp' = [resp EXCEPT ![r] = res]
        /\ IF res = "raise" THEN Finish(r, "Unhandled", 0)
           ELSE Finish(r, StartAnswer(check_token(token[r], res)[1]), 1)
    /\ UNCHANGED <<DATA_SOURCE, sheets, token, minted>>

\* ---------------------------------------------------------- process_spin
process_spin(r) ==
    /\ Arrives(r)
    /\ \E tk \in TokenArgs : token' = [token EXCEPT ![r] = tk]
    /\ Goto(r, "spin_check", 0)
    /\ UNCHANGED <<DATA_SOURCE, db_lock, sheets, status, row, won_prize,
                   new_tokens, minted, resp>>

\* status, row, col = await DataManager.check_token(token), outside the try;
\* a status other than 'active' is answered "Неактивно." and the handler
\* returns; otherwise it goes on (dice, sleep) to get_prizes.
SpinCheck(r) ==
    /\ EnteredCheck(r, "spin_check")
    /\ ReleaseCheck
    /\ \E res \in CheckResults :
        LET found == check_token(token[r], res) IN
        /\ resp' = [resp EXCEPT ![r] = res]
        /\ IF res = "raise" THEN Finish(r, "Unhandled", 0)
           ELSE IF found[1] # "active" THEN Finish(r, "Rejected", 1)
           ELSE /\ status' = [status EXCEPT ![r] = found[1]]
                /\ row' = [row EXCEPT ![r] = found[2]]
                /\ Goto(r, "spin_list", 0)
                /\ UNCHANGED <<won_prize, new_tokens>>
    /\ UNCHANGED <<DATA_SOURCE, sheets, token, minted>>

\* get_prizes without the `limit - issued > 0` filter: every row is listed.
get_prizes_unfiltered(res) ==
    [i \in 1..Len(Prizes) |-> PrizeItem(Prizes, i, Prizes[i].issued.v)]

\* What get_prizes returns: 'google' lets a failure of the sheet calls
\* propagate; _get_prizes_yandex catches every exception and returns [].
get_prizes(res) ==
    IF DATA_SOURCE = "google" THEN _get_prizes_google(Prizes)
    ELSE IF res = "raise" THEN <<>> ELSE _get_prizes_yandex(Prizes)

\* The `except Exception` of process_spin: one message, and the handler ends.
OnException(r) == Finish(r, "Failed", 1)

\* OnNoPrizes returning right after the message, without mark_token_used.
OnNoPrizesReturn(r) == Finish(r, "Exhausted", 1)

\* `if not prizes:` the no-prizes message, `if row:` mark_token_used, return.
OnNoPrizes(r) ==
    IF row[r] # 0
    THEN Goto(r, "exh_mark", 1) /\ UNCHANGED <<status, row, won_prize, new_tokens>>
    ELSE Finish(r, "Exhausted", 1)

\* prizes = await DataManager.get_prizes(); `if not prizes:` sends the
\* no-prizes message and goes on to mark_token_used `if row`; otherwise
\* won_prize = random.choice(prizes).
SpinList(r) ==
    /\ Entered(r, "spin_list")
    /\ Release
    /\ \E res \in {"ok", "raise"} :
        LET prizes == get_prizes(res) IN
        /\ resp' = [resp EXCEPT ![r] = res]
        /\ IF DATA_SOURCE = "google" /\ res = "raise" THEN OnException(r)
           ELSE IF prizes = <<>>
           THEN OnNoPrizes(r)
           ELSE /\ \E i \in 1..Len(prizes) :
                      won_prize' = [won_prize EXCEPT ![r] = prizes[i]]
                /\ Goto(r, "spin_record", 0)
                /\ UNCHANGED <<status, row, new_tokens>>
    /\ UNCHANGED <<DATA_SOURCE, sheets, token, minted>>

\* How a record_winner call can end.  'google': update_cell fails ("raise"),
\* or update_cell succeeds and append_row fails ("raise_append").  'yandex':
\* the download or the upload link fails ("raise"), or the PUT of the file is
\* answered with an error status, which _upload_excel does not look at
\* ("dropped").
RecordResults ==
    IF DATA_SOURCE = "google" THEN {"ok", "raise", "raise_append"}
    ELSE {"ok", "raise", "dropped"}

\* The position after record_winner returned: `if row:` mark_token_used,
\* then the prize message.
AfterRecord(r) ==
    IF row[r] # 0
    THEN Goto(r, "spin_mark", 0) /\ UNCHANGED <<status, row, won_prize, new_tokens>>
    ELSE Finish(r, "Awarded", 1)

\* await DataManager.record_winner(c.from_user, won_prize)
SpinRecord(r) ==
    /\ Entered(r, "spin_record")
    /\ Release
    /\ \E res \in RecordResults :
        /\ resp' = [resp EXCEPT ![r] = res]
        /\ Prizes' =
             IF DATA_SOURCE = "google"
             THEN (IF res = "raise" THEN Prizes
                   ELSE GoogleUpdateIssued(Prizes, won_prize[r]))
             ELSE (IF res = "ok" THEN YandexUpdateIssued(Prizes, won_prize[r])
                   ELSE Prizes)
        /\ Winners' = IF res = "ok"
                      THEN Append(Winners, WinnerRow(r, won_prize[r]))
                      ELSE Winners
        /\ IF res \in {"raise", "raise_append"} THEN OnException(r)
           ELSE AfterRecord(r)
    /\ UNCHANGED <<DATA_SOURCE, Tokens, token, minted>>

\* How a mark_token_used call can end.
MarkResults ==
    IF DATA_SOURCE = "google" THEN {"ok", "raise"}
    ELSE {"ok", "raise", "dropped"}

\* A mark whose write lands even when the call ends with an exception.
mark_token_used_written(r, res) == _mark_token_used(Tokens, row[r])

\* The Tokens sheet after mark_token_used((status, row, col)) ended with res.
mark_token_used(r, res) ==
    IF res = "ok" THEN _mark_token_used(Tokens, row[r]) ELSE Tokens

\* await DataManager.mark_token_used((status, row, col)) after the award,
\* then the prize message.
SpinMark(r) ==
    /\ Entered(r, "spin_mark")
    /\ Release
    /\ \E res \in MarkResults :
        /\ resp' = [resp EXCEPT ![r] = res]
        /\ Tokens' = mark_token_used(r, res)
        /\ IF res = "raise" THEN OnException(r) ELSE Finish(r, "Awarded", 1)
    /\ UNCHANGED <<DATA_SOURCE, Prizes, Winners, token, minted>>

\* await DataManager.mark_token_used((status, row, col)) after the
\* no-prizes message, then return.
ExhMark(r) ==
    /\ Entered(r, "exh_mark")
    /\ Release
    /\ \E res \in MarkResults :
        /\ resp' = [resp EXCEPT ![r] = res]
        /\ Tokens' = mark_token_used(r, res)
        /\ IF res = "raise" THEN OnException(r) ELSE Finish(r, "Exhausted", 0)
    /\ UNCHANGED <<DATA_SOURCE, Prizes, Winners, token, minted>>

\* ---------------------------------------------------------- cmd_generate
\* str(uuid.uuid4())[:8]: the n-th token minted by the process.
NewToken(n) == "g" \o ToString(n)

\* [str(uuid.uuid4())[:8] for _ in range(count)]; range(count) is empty for
\* count <= 0.
MintTokens(count) ==
    [k \in 1..(IF count > 0 THEN count ELSE 0) |-> NewToken(minted + k)]

\* The arguments of /generate: a text int() rejects ("x"), or a number.
NotANumber == [numeric |-> FALSE, n |-> 0]
CountArgs == {NotANumber} \cup {[numeric |-> TRUE, n |-> c] : c \in -1..MaxCount}

\* count = int(message.get_args()); on an exception the usage reply and
\* return.  Otherwise the tokens are minted, the "Пишу в ..." reply is sent
\* and add_tokens is awaited.
cmd_generate(r) ==
    /\ Arrives(r)
    /\ \E arg \in CountArgs :
        IF ~arg.numeric
        THEN Finish(r, "Usage", 1) /\ UNCHANGED minted
        ELSE /\ new_tokens' = [new_tokens EXCEPT ![r] = MintTokens(arg.n)]
             /\ minted' = minted + Len(MintTokens(arg.n))
             /\ Goto(r, "gen_add", 1)
             /\ UNCHANGED <<status, row, won_prize>>
    /\ UNCHANGED <<DATA_SOURCE, db_lock, sheets, token, resp>>

\* _add_tokens_google: append_rows([[t, 'active'] for t in tokens]);
\* _add_tokens_yandex: ws.append([t, 'active']) for each token.
_add_tokens(sheet, tokens) ==
    sheet \o [k \in 1..Len(tokens) |-> [token |-> tokens[k], status |-> "active"]]

\* How an add_tokens call can end.
AddResults ==
    IF DATA_SOURCE = "google" THEN {"ok", "raise"}
    ELSE {"ok", "raise", "dropped"}

\* The links document sent whatever add_tokens did.
AfterAddAlwaysLinks(r, res) == Finish(r, "Generated", 1)

\* `except Exception`: the error reply and return; otherwise the links
\* document is built from new_tokens and sent.
AfterAdd(r, res) ==
    IF res = "raise" THEN Finish(r, "GenFailed", 1)
    ELSE Finish(r, "Generated", 1)

\* await DataManager.add_tokens(new_tokens): on an exception the error reply
\* and return, otherwise the links document is sent.
GenAdd(r) ==
    /\ Entered(r, "gen_add")
    /\ Release
    /\ \E res \in AddResults :
        /\ resp' = [resp EXCEPT ![r] = res]
        /\ Tokens' = IF res = "ok" THEN _add_tokens(Tokens, new_tokens[r])
                     ELSE Tokens
        /\ AfterAdd(r, res)
    /\ UNCHANGED <<DATA_SOURCE, Prizes, Winners, token, minted>>

\* ------------------------------------------------------------------ Next
Next ==
    \E r \in Requests :
        \/ cmd_start(r)
        \/ StartCheck(r)
        \/ process_spin(r)
        \/ Acquire(r)
        \/ SpinCheck(r)
        \/ SpinList(r)
        \/ SpinRecord(r)
        \/ SpinMark(r)
        \/ ExhMark(r)

Spec == Init /\ [][Next]_vars

\* The handlers of Next together with the administrator's /generate.
NextAdmin ==
    \E r \in Requests :
        \/ cmd_start(r)
        \/ StartCheck(r)
        \/ process_spin(r)
        \/ Acquire(r)
        \/ SpinCheck(r)
        \/ SpinList(r)
        \/ SpinRecord(r)
        \/ SpinMark(r)
        \/ ExhMark(r)
        \/ cmd_generate(r)
        \/ GenAdd(r)

\* With /generate the Prizes sheet starts as one well-formed row.
InitAdmin ==
    /\ Init
    /\ Len(Prizes) = 1
    /\ IsInt(Prizes[1].limit) /\ IsInt(Prizes[1].issued)

SpecAdmin == InitAdmin /\ [][NextAdmin]_vars

\* ================================================================ claims
\* Positions of process_spin between its check_token and its return.
DrawOps == {"spin_list", "spin_record", "spin_mark", "exh_mark"}
DrawPcs == DrawOps \cup {InCS(op) : op \in DrawOps}
SpinCheckPcs == {"spin_check", InCS("spin_check")}
StartCheckPcs == {"start_check", InCS("start_check")}
ListPcs == {"spin_list", InCS("spin_list")}
RecordPcs == {"spin_record", InCS("spin_record")}
ExhMarkPcs == {"exh_mark", InCS("exh_mark")}

\* The status stored for a token in a Tokens sheet.
StoredStatus(sheet, tk) == _check_token(sheet, tk)[1]

\* The Winners rows appended by redemptions of token tk (the user of a row
\* is the request that appended it).
WinnersOfToken(tk) == {i \in 1..Len(Winners) : token[Winners[i].user] = tk}

\* C1: for every token, however the spin requests carrying it interleave,
\* at most one WinnerRecord is appended for it (one request is awarded, the
\* others are rejected at the check).
C1_OneWinnerPerToken ==
    \A tk \in TokenArgs : Cardinality(WinnersOfToken(tk)) <= 1

\* No two handlers were started with the same token.
DistinctTokens ==
    \A r, q \in Requests :
        (r # q /\ pc[r] # "idle" /\ pc[q] # "idle") => token[r] # token[q]

C3_RejectionMutatesNothing ==
    [][\A r \in Requests :
        ((pc[r] \in {"idle"} \cup StartCheckPcs \cup SpinCheckPcs)
            /\ pc'[r] # pc[r]) =>
          /\ sheets' = sheets
          /\ (pc[r] \in StartCheckPcs /\ pc'[r] = "done" /\ resp'[r] = "ok") =>
                /\ StoredStatus(Tokens, token[r]) = "used"
                      => outcome'[r] = "AlreadyUsed"
                /\ StoredStatus(Tokens, token[r]) = "None"
                      => outcome'[r] = "Invalid"
                /\ msgs'[r] = msgs[r] + 1
          /\ (pc[r] \in SpinCheckPcs /\ resp'[r] = "ok"
                /\ resp[r] # resp'[r]
                /\ StoredStatus(Tokens, token[r]) \in {"used", "None"}) =>
                /\ pc'[r] = "done"
                /\ outcome'[r] = "Rejected"
      ]_vars

\* C3 witness: /start with a token stored as used was answered AlreadyUsed.
C3_Witness ==
    \E r \in Requests :
        /\ pc[r] = "done"
        /\ outcome[r] = "AlreadyUsed"
        /\ resp[r] = "ok"
        /\ StoredStatus(Tokens, token[r]) = "used"

\* C4: a spin whose listing is empty goes on to mark_token_used; the steps
\* of that branch change neither Prizes nor Winners, and when the mark call
\* succeeds the flow ends Exhausted with the token stored as used.
C4_ExhaustedSpendsToken ==
    [][\A r \in Requests :
        /\ (pc[r] \in ListPcs /\ pc'[r] \notin ListPcs
              /\ pc'[r] # "spin_record" /\ outcome'[r] # "Failed") =>
                /\ pc'[r] = "exh_mark"
                /\ sheets' = sheets
        /\ (pc[r] \in ExhMarkPcs /\ pc'[r] # pc[r]) =>
                /\ Prizes' = Prizes
                /\ Winners' = Winners
                /\ (pc'[r] = "done" /\ resp'[r] = "ok") =>
                      /\ outcome'[r] = "Exhausted"
                      /\ StoredStatus(Tokens', token[r]) = "used"
      ]_vars

\* C4 witness: a flow ended Exhausted, its token is used, nothing was won.
C4_Witness ==
    \E r \in Requests :
        /\ pc[r] = "done"
        /\ outcome[r] = "Exhausted"
        /\ resp[r] = "ok"
        /\ StoredStatus(Tokens, token[r]) = "used"
        /\ Winners = <<>>

\* C5: when record_winner raises, the flow sends its failure message and
\* still goes on to mark_token_used.
C5_FailedAwardStillFinalizes ==
    [][\A r \in Requests :
        (pc[r] \in RecordPcs /\ pc'[r] \notin RecordPcs
            /\ resp'[r] \in {"raise", "raise_append"}) =>
              /\ pc'[r] = "spin_mark"
              /\ msgs'[r] = msgs[r] + 1
      ]_vars

\* C6: a spin that ended rejected, exhausted or failed has sent exactly one
\* message to the requester.
C6_OneNotificationPerFailure ==
    \A r \in Requests :
        (pc[r] = "done" /\ outcome[r] \in {"Rejected", "Exhausted", "Failed"})
            => msgs[r] = 1

\* The spin handler of r is between its start and its return.
SpinInFlight(r) == pc[r] \in SpinCheckPcs \cup DrawPcs

\* C7: while a spin for a token is in flight, a later spin request carrying
\* the same token takes no step (each of its steps is a backend call).
C7_DuplicateTouchesNoBackend ==
    [][\A r, q \in Requests :
        (r < q /\ token[r] = token[q] /\ SpinInFlight(r) /\ SpinInFlight(q))
            => pc'[q] = pc[q]
      ]_vars

\* C8: under 'yandex', a handler is inside a backend operation exactly when
\* it holds db_lock, so at most one operation is in progress, and a handler
\* outside an operation (after a return or an exception) does not hold it.
C8_LockCoversEveryCycle ==
    DATA_SOURCE = "yandex" =>
        /\ \A r \in Requests : pc[r] \in CsPcs <=> db_lock = r
        /\ Cardinality({r \in Requests : pc[r] \in CsPcs}) <= 1

\* C8 witness: one handler left its operation by an exception and another
\* handler now holds the lock inside an operation.
C8_Witness ==
    /\ DATA_SOURCE = "yandex"
    /\ \E r, q \in Requests :
        /\ pc[r] = "done" /\ resp[r] = "raise"
        /\ pc[q] \in CsPcs /\ db_lock = q

\* The number an issued cell stands for (an empty cell counts as 0).
IssuedValue(c) == IF c.k = "int" THEN c.v ELSE 0

\* C9: a record_winner that returns without error leaves the stored issued
\* of the won prize one above what was stored just before the call and
\* appends one row to Winners.
C9_AwardIncrementsByOne ==
    [][\A r \in Requests :
        (pc[r] \in RecordPcs /\ pc'[r] = "spin_mark") =>
            LET i == won_prize[r].row_idx - HeaderRows IN
            /\ Prizes'[i].issued = IntCell(IssuedValue(Prizes[i].issued) + 1)
            /\ Len(Winners') = Len(Winners) + 1
      ]_vars

\* The worksheet rows a listing is to return: both cells are numbers and
\* limit - issued > 0.
AvailableRows ==
    {i + HeaderRows : i \in {j \in 1..Len(Prizes) :
        /\ IsInt(Prizes[j].limit)
        /\ IsInt(Prizes[j].issued)
        /\ Prizes[j].limit.v - Prizes[j].issued.v > 0}}

ListedRows == {get_prizes("ok")[i].row_idx : i \in 1..Len(get_prizes("ok"))}

\* C10: a listing whose calls succeed returns every row with
\* limit - issued > 0 and no row whose limit is not a number or is used up:
\* an unparseable row is skipped on its own and removes no other row.
C10_ListingSkipsBadRowsOnly ==
    /\ AvailableRows \subseteq ListedRows
    /\ \A w \in ListedRows :
          /\ IsInt(Prizes[w - HeaderRows].limit)
          /\ Prizes[w - HeaderRows].limit.v
                - IssuedValue(Prizes[w - HeaderRows].issued) > 0

\* ------------------------------------------- redemptions one after another
\* The pool of one prize with one unit left.
SinglePrizePool ==
    <<[name |-> "A", limit |-> IntCell(1), issued |-> IntCell(0)]>>

InitSequential ==
    /\ Init
    /\ Prizes = SinglePrizePool

\* Request r is the only one between its arrival and its return.
OneAtATime(r) == \A q \in Requests \ {r} : pc[q] \in {"idle", "done"}

\* The backend call of the step of r, if it made one, succeeded.
CallSucceeds(r) == resp'[r] \in {"none", "ok"}

\* Spin requests served one at a time (a request arrives when every earlier
\* one has returned) by a backend whose calls all succeed.
NextSequential ==
    \E r \in Requests :
        \/ OneAtATime(r) /\ process_spin(r) /\ CallSucceeds(r)
        \/ OneAtATime(r) /\ Acquire(r) /\ CallSucceeds(r)
        \/ OneAtATime(r) /\ SpinCheck(r) /\ CallSucceeds(r)
        \/ OneAtATime(r) /\ SpinList(r) /\ CallSucceeds(r)
        \/ OneAtATime(r) /\ SpinRecord(r) /\ CallSucceeds(r)
        \/ OneAtATime(r) /\ SpinMark(r) /\ CallSucceeds(r)
        \/ OneAtATime(r) /\ ExhMark(r) /\ CallSucceeds(r)

SpecSequential == InitSequential /\ [][NextSequential]_vars

\* C11: with the pool {A, limit 1, issued 0} and the two active tokens
\* redeemed one after the other by the first two requests, the first request
\* is awarded A (the only Winners row) and the second ends Exhausted.
C11_SecondRedemptionExhausted ==
    (/\ pc[1] = "done" /\ pc[2] = "done"
     /\ {token[1], token[2]} = {"t1", "t2"}) =>
        /\ outcome[1] = "Awarded"
        /\ outcome[2] = "Exhausted"
        /\ Winners = <<[user |-> 1, prize |-> "A"]>>
        /\ Prizes[1].issued = IntCell(1)

\* C11 witness: both redemptions have returned.
C11_Witness ==
    /\ pc[1] = "done" /\ pc[2] = "done"
    /\ {token[1], token[2]} = {"t1", "t2"}
    /\ outcome[2] = "Exhausted"

\* C12: for every row of the Tokens sheet, marking it used a second time
\* gives exactly the sheet the first marking gave, and a marking changes
\* nothing but the status cell of that row.
C12_MarkTwiceSameAsOnce ==
    \A i \in 1..Len(Tokens) :
        LET once == _mark_token_used(Tokens, i)
            twice == _mark_token_used(once, i)
        IN /\ twice = once
           /\ Len(once) = Len(Tokens)
           /\ once[i] = [Tokens[i] EXCEPT !.status = "used"]
           /\ \A j \in 1..Len(Tokens) : j # i => once[j] = Tokens[j]

\* C12 witness: two requests carrying the same token have both completed
\* their mark_token_used call on its row.
C12_Witness ==
    \E r, q \in Requests :
        /\ r # q
        /\ token[r] = token[q]
        /\ pc[r] = "done" /\ pc[q] = "done"
        /\ outcome[r] \in {"Awarded", "Exhausted"}
        /\ outcome[q] \in {"Awarded", "Exhausted"}
        /\ resp[r] = "ok" /\ resp[q] = "ok"
        /\ StoredStatus(Tokens, token[r]) = "used"

\* Positions of cmd_generate at its add_tokens call.
GenAddPcs == {"gen_add", InCS("gen_add")}

\* C13: when add_tokens(new_tokens) returns without an exception, check_token
\* finds every one of the new tokens with status 'active' in the sheet the
\* call left behind.
C13_AddedTokensAreActive ==
    [][\A r \in Requests :
        (pc[r] \in GenAddPcs /\ pc'[r] = "done" /\ resp'[r] # "raise") =>
            \A k \in 1..Len(new_tokens[r]) :
                _check_token(Tokens', new_tokens[r][k])[1] = "active"
      ]_vars

\* C14: an add_tokens call either raises or leaves the Tokens sheet extended
\* by one 'active' row per token; it never returns normally with the sheet
\* not written.
C14_AddPersistsOrFails ==
    [][\A r \in Requests :
        (pc[r] \in GenAddPcs /\ pc'[r] = "done") =>
            \/ outcome'[r] = "GenFailed"
            \/ Tokens' = _add_tokens(Tokens, new_tokens[r])
      ]_vars

\* C15: the links document is sent only by the step in which add_tokens
\* returned without an exception; until then the request has sent only the
\* "writing" reply, and a request whose add_tokens raised ends with the
\* error reply and no links.
C15_LinksOnlyAfterAdd ==
    \A r \in Requests :
        /\ outcome[r] = "Generated" =>
              (pc[r] = "done" /\ resp[r] \in {"ok", "dropped"})
        /\ pc[r] \in GenAddPcs => (outcome[r] = "none" /\ msgs[r] = 1)
        /\ (pc[r] = "done" /\ resp[r] = "raise") => outcome[r] # "Generated"
        /\ outcome[r] = "GenFailed" => (resp[r] = "raise" /\ msgs[r] = 2)

\* C15 witness: one /generate ended with the links after add_tokens stored
\* its tokens, another ended with the error reply.
C15_Witness ==
    \E r, q \in Requests :
        /\ outcome[r] = "Generated" /\ resp[r] = "ok"
        /\ StoredStatus(Tokens, NewToken(1)) = "active"
        /\ outcome[q] = "GenFailed"

\* C16: /generate goes on to its add_tokens call only with at least one
\* token to write (a count that is not a positive integer is answered at
\* once), and /start goes on to check_token only with a non-empty token.
C16_BadInputRejectedAtOnce ==
    [][\A r \in Requests :
        /\ (pc[r] = "idle" /\ pc'[r] = "gen_add") => new_tokens'[r] # <<>>
        /\ (pc[r] = "idle" /\ pc'[r] = "start_check") => token'[r] # ""
      ]_vars

\* ----------------------------------------------------------- fair schedule
\* The steps of a handler that has been started: the event loop resumes
\* every coroutine whose awaited call has returned, and wakes the waiters of
\* db_lock when it is released.
Continue(r) ==
    \/ StartCheck(r)
    \/ Acquire(r)
    \/ SpinCheck(r)
    \/ SpinList(r)
    \/ SpinRecord(r)
    \/ SpinMark(r)
    \/ ExhMark(r)

SpecFair ==
    /\ InitSequential
    /\ [][Next]_vars
    /\ \A r \in Requests : WF_vars(Continue(r))

\* C17: a handler that has returned, with an exception or not, does not hold
\* db_lock; and once some handler has ended on an exception raised by a
\* backend call, every other handler that has been started still returns.
C17_FailureDoesNotBlockOthers ==
    /\ [](\A q \in Requests : pc[q] = "done" => db_lock # q)
    /\ \A r \in Requests :
          (/\ pc[r] \notin {"idle", "done"}
           /\ \E q \in Requests \ {r} : pc[q] = "done" /\ resp[q] = "raise")
             ~> (pc[r] = "done")

\* C17 witness: one handler ended on a raised backend call while a spin with
\* another token was between its check and its return.
C17_Witness ==
    \E r, q \in Requests :
        /\ r # q
        /\ pc[q] = "done" /\ resp[q] = "raise"
        /\ pc[r] \in DrawPcs
        /\ token[r] # token[q]

\* C18: a spin takes the no-prizes branch only when, at its listing, no row
\* of the Prizes sheet has limit - issued > 0; neither a failed listing call
\* nor an unparseable row sends a sheet with an available row down that
\* branch.
C18_ExhaustedOnlyWhenEmpty ==
    [][\A r \in Requests :
        (pc[r] \in ListPcs /\ pc'[r] = "exh_mark") => AvailableRows = {}
      ]_vars

\* Positions of process_spin at its mark_token_used call after the award.
SpinMarkPcs == {"spin_mark", InCS("spin_mark")}

\* C19: when mark_token_used raises after record_winner has stored the
\* award, the handler ends with the error message and nothing is undone or
\* retried: the Winners row of the request and the incremented issued stay,
\* and the Tokens sheet is as it was, the token's status included.
C19_FailedMarkKeepsAward ==
    [][\A r \in Requests :
        (pc[r] \in SpinMarkPcs /\ pc'[r] # pc[r] /\ resp[r] = "ok"
            /\ resp'[r] = "raise") =>
          LET i == won_prize[r].row_idx - HeaderRows IN
          /\ pc'[r] = "done"
          /\ outcome'[r] = "Failed"
          /\ sheets' = sheets
          /\ \E w \in 1..Len(Winners') : Winners'[w].user = r
          /\ IsInt(Prizes'[i].issued) /\ Prizes'[i].issued.v >= 1
          /\ StoredStatus(Tokens', token[r]) = StoredStatus(Tokens, token[r])
      ]_vars

\* C19 witness: a spin ended on a failed mark_token_used with its award
\* stored, and another spin with the same token has stored an award too.
C19_Witness ==
    \E r, q \in Requests :
        /\ r # q
        /\ token[r] = token[q]
        /\ pc[r] = "done" /\ outcome[r] = "Failed" /\ resp[r] = "raise"
        /\ \E w \in 1..Len(Winners) : Winners[w].user = r
        /\ \E w \in 1..Len(Winners) : Winners[w].user = q
        /\ pc[q] = "done" /\ outcome[q] = "Awarded"

\* C20: under 'google' every prize row holding numbers has issued <= limit,
\* however the spins interleave and whatever tokens they carry: the value
\* written is the listed issued + 1 and only rows with limit - issued > 0
\* are listed.
C20_IssuedWithinLimitGoogle ==
    DATA_SOURCE = "google" =>
        \A i \in 1..Len(Prizes) :
            (IsInt(Prizes[i].limit) /\ IsInt(Prizes[i].issued)) =>
                Prizes[i].issued.v <= Prizes[i].limit.v

\* C20 witness: under 'google' two spins listed the same prize before either
\* recorded it, both recorded it, and issued stands at the limit.
C20_Witness ==
    /\ DATA_SOURCE = "google"
    /\ \E w, x \in 1..Len(Winners) :
          /\ w # x
          /\ Winners[w].prize = Winners[x].prize
          /\ \E i \in 1..Len(Prizes) :
                /\ Prizes[i].name = Winners[w].prize
                /\ IsInt(Prizes[i].limit)
                /\ Prizes[i].issued = IntCell(Prizes[i].limit.v)

====
